---------------------------- MODULE Spec2Model ----------------------------
(***************************************************************************)
(* gametimedb: the GET /api/games handler of src/index.js, in its two      *)
(* server variants (the server with signup, lines 1-580, called "A" here,  *)
(* and the second server, lines 581-965, called "B").                      *)
(*                                                                         *)
(* Strings are sequences of pieces.  A piece is a single character of a    *)
(* request value, or a literal fragment of the handler's SQL text; the     *)
(* character '?' is always a piece of its own, so that counting the        *)
(* placeholders of a text is counting its "?" pieces.                      *)
(* Numbers are records [nan, v]: JavaScript's NaN, or the integer v.       *)
(* The request values used here hold no '.', 'e', 'x' or "Infinity", so    *)
(* every number parsed from them is an integer.                            *)
(***************************************************************************)
EXTENDS Integers, Sequences, FiniteSets, TLC

VARIABLES variant, matching, pc, query, pageNum, limitNum, offset,
          countQuery, countParams, totalGames, gamesQuery, gamesParams,
          response, prev, users, reqs, route, pool

vars == <<variant, matching, pc, query, pageNum, limitNum, offset,
          countQuery, countParams, totalGames, gamesQuery, gamesParams,
          response, prev, users, reqs, route, pool>>

\* The state of the list handler, and the state of the other handlers.
gamesVars == <<matching, pc, query, pageNum, limitNum, offset, countQuery,
               countParams, totalGames, gamesQuery, gamesParams, response,
               prev>>

otherVars == <<users, reqs, route, pool>>

\* Largest number of rows of steam_games that match a request's filters.
MaxRows == 12

--------------------------------------------------------------------------
(* JavaScript values and the library functions the handler calls.         *)

NaN == [nan |-> TRUE, v |-> 0]
Num(n) == [nan |-> FALSE, v |-> n]

\* A value of req.query: undefined, a string, an array (a repeated key) or
\* an object (key[x]=..); s is String(value).
Undef == [t |-> "undef", s |-> <<>>]
Str(s) == [t |-> "str", s |-> s]
Arr(s) == [t |-> "arr", s |-> s]
Obj == [t |-> "obj", s |-> <<"[object Object]">>]

Digits == <<"0", "1", "2", "3", "4", "5", "6", "7", "8", "9">>
IsDigit(c) == \E i \in 1..10 : Digits[i] = c
DigitVal(c) == (CHOOSE i \in 1..10 : Digits[i] = c) - 1

RECURSIVE StripWs(_)
StripWs(s) == IF s # <<>> /\ Head(s) = " " THEN StripWs(Tail(s)) ELSE s

RECURSIVE DigitPrefix(_)
DigitPrefix(s) ==
  IF s # <<>> /\ IsDigit(Head(s)) THEN <<Head(s)>> \o DigitPrefix(Tail(s))
  ELSE <<>>

RECURSIVE DigitsValue(_, _)
DigitsValue(s, acc) ==
  IF s = <<>> THEN acc ELSE DigitsValue(Tail(s), 10 * acc + DigitVal(Head(s)))

\* parseInt(string): leading white space, an optional sign, the longest
\* prefix of decimal digits; NaN when there is no digit.
ParseInt(s) ==
  LET t == StripWs(s)
      neg == t # <<>> /\ Head(t) = "-"
      signed == t # <<>> /\ Head(t) \in {"-", "+"}
      d == DigitPrefix(IF signed THEN Tail(t) ELSE t)
  IN IF d = <<>> THEN NaN
     ELSE Num(IF neg THEN 0 - DigitsValue(d, 0) ELSE DigitsValue(d, 0))

\* parseFloat(string) on strings without '.', 'e' or "Infinity": the same
\* prefix rule as parseInt.
ParseFloat(s) ==
  LET t == StripWs(s)
      neg == t # <<>> /\ Head(t) = "-"
      signed == t # <<>> /\ Head(t) \in {"-", "+"}
      d == DigitPrefix(IF signed THEN Tail(t) ELSE t)
  IN IF d = <<>> THEN NaN
     ELSE Num(IF neg THEN 0 - DigitsValue(d, 0) ELSE DigitsValue(d, 0))

MathMax(a, b) ==
  IF a.nan \/ b.nan THEN NaN ELSE IF a.v >= b.v THEN a ELSE b
MathMin(a, b) ==
  IF a.nan \/ b.nan THEN NaN ELSE IF a.v <= b.v THEN a ELSE b

\* n || d for a number n: d when n is NaN or 0.
OrElse(n, d) == IF n.nan \/ n.v = 0 THEN d ELSE n

\* a * b and a - b on numbers.
Times(a, b) == IF a.nan \/ b.nan THEN NaN ELSE Num(a.v * b.v)
Minus(a, b) == IF a.nan \/ b.nan THEN NaN ELSE Num(a.v - b.v)

\* Math.ceil(a / b) for a >= 0; b = 0 does not occur (limitNum >= 1 or NaN).
MathCeilDiv(a, b) ==
  IF a.nan \/ b.nan \/ b.v = 0 THEN NaN
  ELSE Num((a.v + b.v - 1) \div b.v)

\* a < b and a > b: false when either is NaN.
Less(a, b) == ~a.nan /\ ~b.nan /\ a.v < b.v

\* `${n}` for a number.
NumText(n) == IF n.nan THEN <<"NaN">> ELSE <<ToString(n.v)>>

\* Truthiness of a query value: only undefined and '' are falsy.
Truthy(x) == x.t \in {"arr", "obj"} \/ (x.t = "str" /\ x.s # <<>>)

Upper == [c \in {"d", "e", "s", "c", "a", "D", "E", "S", "C", "A", "x"} |->
            CASE c = "d" -> "D" [] c = "e" -> "E" [] c = "s" -> "S"
              [] c = "c" -> "C" [] c = "a" -> "A" [] c = "x" -> "X"
              [] OTHER -> c]
\* String.prototype.toUpperCase.
ToUpperCase(s) == [i \in 1..Len(s) |-> Upper[s[i]]]

\* The number of '?' characters of a text: (text.match(/\?/g) || []).length.
Placeholders(text) == Cardinality({i \in 1..Len(text) : text[i] = "?"})

--------------------------------------------------------------------------
(* The pure steps of app.get('/api/games').  vr is the server variant, q   *)
(* is req.query.                                                           *)

\* const { ..., sortBy = 'name', order = 'ASC', page = 1, limit = 20 }:
\* a default replaces undefined only.
DefaultTo(x, d) == IF x.t = "undef" THEN d ELSE x

DefaultSortBy == Str(<<"n", "a", "m", "e">>)
DefaultOrder == Str(<<"A", "S", "C">>)
DefaultPage == [t |-> "num", s |-> <<"1">>]
DefaultLimit == [t |-> "num", s |-> <<"2", "0">>]

\* pageNum: A has Math.max(1, parseInt(page) || 1), B has no "|| 1".
PageNum(vr, q) ==
  LET p == ParseInt(DefaultTo(q.page, DefaultPage).s)
  IN IF vr = "A" THEN MathMax(Num(1), OrElse(p, Num(1)))
     ELSE MathMax(Num(1), p)

\* limitNum: A has Math.min(100, Math.max(1, parseInt(limit) || 20)),
\* B has no "|| 20".
LimitNum(vr, q) ==
  LET l == ParseInt(DefaultTo(q.limit, DefaultLimit).s)
  IN IF vr = "A" THEN MathMin(Num(100), MathMax(Num(1), OrElse(l, Num(20))))
     ELSE MathMin(Num(100), MathMax(Num(1), l))

\* offset = (pageNum - 1) * limitNum
Offset(p, l) == Times(Minus(p, Num(1)), l)

\* Mutant: the test against the empty string is forgotten.
BoundGivenLoose(vr, x) == x.t # "undef"

\* The guard of a numeric bound: A tests x !== undefined && x !== '',
\* B tests the truthiness of x.
BoundGiven(vr, x) ==
  IF vr = "A" THEN x.t # "undef" /\ ~(x.t = "str" /\ x.s = <<>>)
  ELSE Truthy(x)

StrParam(s) == [k |-> "str", s |-> s, n |-> NaN]
NumParam(n) == [k |-> "num", s |-> <<>>, n |-> n]

\* Mutant: the search term is written into the text of its predicate.
WhereConditionsInline(vr, q) ==
     (IF Truthy(q.search)
        THEN << <<"name LIKE ", "'", "%">> \o q.search.s \o <<"%", "'">> >>
        ELSE <<>>)
  \o (IF BoundGiven(vr, q.minPrice) THEN << <<"price_usd >= ", "?">> >> ELSE <<>>)
  \o (IF BoundGiven(vr, q.maxPrice) THEN << <<"price_usd <= ", "?">> >> ELSE <<>>)
  \o (IF BoundGiven(vr, q.minHours) THEN << <<"hours_to_beat >= ", "?">> >> ELSE <<>>)
  \o (IF BoundGiven(vr, q.maxHours) THEN << <<"hours_to_beat <= ", "?">> >> ELSE <<>>)

\* whereConditions after the five ifs, in the order of the code.
WhereConditions(vr, q) ==
     (IF Truthy(q.search) THEN << <<"name LIKE ", "?">> >> ELSE <<>>)
  \o (IF BoundGiven(vr, q.minPrice) THEN << <<"price_usd >= ", "?">> >> ELSE <<>>)
  \o (IF BoundGiven(vr, q.maxPrice) THEN << <<"price_usd <= ", "?">> >> ELSE <<>>)
  \o (IF BoundGiven(vr, q.minHours) THEN << <<"hours_to_beat >= ", "?">> >> ELSE <<>>)
  \o (IF BoundGiven(vr, q.maxHours) THEN << <<"hours_to_beat <= ", "?">> >> ELSE <<>>)

\* baseParams after the five ifs: `%${search}%`, then parseFloat of each bound.
BaseParams(vr, q) ==
     (IF Truthy(q.search)
        THEN <<StrParam(<<"%">> \o q.search.s \o <<"%">>)>> ELSE <<>>)
  \o (IF BoundGiven(vr, q.minPrice)
        THEN <<NumParam(ParseFloat(q.minPrice.s))>> ELSE <<>>)
  \o (IF BoundGiven(vr, q.maxPrice)
        THEN <<NumParam(ParseFloat(q.maxPrice.s))>> ELSE <<>>)
  \o (IF BoundGiven(vr, q.minHours)
        THEN <<NumParam(ParseFloat(q.minHours.s))>> ELSE <<>>)
  \o (IF BoundGiven(vr, q.maxHours)
        THEN <<NumParam(ParseFloat(q.maxHours.s))>> ELSE <<>>)

\* whereConditions.join(' AND ')
RECURSIVE JoinAnd(_)
JoinAnd(conds) ==
  IF conds = <<>> THEN <<>>
  ELSE IF Len(conds) = 1 THEN conds[1]
  ELSE conds[1] \o <<" AND ">> \o JoinAnd(Tail(conds))

\* whereClause
WhereClause(conds) ==
  IF Len(conds) > 0 THEN <<"WHERE ">> \o JoinAnd(conds) ELSE <<>>

validSortColumns ==
  { <<"n", "a", "m", "e">>,
    <<"p", "r", "i", "c", "e", "_", "u", "s", "d">>,
    <<"h", "o", "u", "r", "s", "_", "t", "o", "_", "b", "e", "a", "t">>,
    <<"c", "o", "s", "t", "_", "p", "e", "r", "_", "h", "o", "u", "r">>,
    <<"c", "r", "e", "a", "t", "e", "d", "_", "a", "t">> }

\* Mutant: the requested column is used without the allow-list.
SortColumnUnchecked(q) == DefaultTo(q.sortBy, DefaultSortBy).s

\* sortColumn = validSortColumns.includes(sortBy) ? sortBy : 'name'
\* (includes compares with ===: an array or an object is never included).
SortColumn(q) ==
  LET sortBy == DefaultTo(q.sortBy, DefaultSortBy)
  IN IF sortBy.t = "str" /\ sortBy.s \in validSortColumns
       THEN sortBy.s ELSE <<"n", "a", "m", "e">>

\* order.toUpperCase() raises a TypeError unless order is a string.
OrderThrows(q) == DefaultTo(q.order, DefaultOrder).t # "str"

\* Mutant: the comparison without toUpperCase().
SortOrderExact(q) ==
  IF DefaultTo(q.order, DefaultOrder).s = <<"D", "E", "S", "C">>
    THEN "DESC" ELSE "ASC"

\* sortOrder = order.toUpperCase() === 'DESC' ? 'DESC' : 'ASC'
SortOrder(q) ==
  IF ToUpperCase(DefaultTo(q.order, DefaultOrder).s) = <<"D", "E", "S", "C">>
    THEN "DESC" ELSE "ASC"

\* countQuery
CountQuery(w) == <<"SELECT COUNT(*) as total FROM steam_games ">> \o w

\* gamesQuery: A writes limitNum and offset into the text, B binds them.
\* (B's template literal breaks its lines; its white space is written here
\* as A's single spaces.)
GamesQuery(vr, w, col, ord, lim, off) ==
  IF vr = "A"
    THEN <<"SELECT id, name, steam_appid, price_usd, hours_to_beat, cost_per_hour, created_at, updated_at FROM steam_games ">>
         \o w \o <<" ORDER BY ">> \o col \o <<" ", ord, " LIMIT ">>
         \o NumText(lim) \o <<" OFFSET ">> \o NumText(off)
    ELSE <<"SELECT id, name, steam_appid, price_usd, hours_to_beat, cost_per_hour, created_at, updated_at FROM steam_games ">>
         \o w \o <<" ORDER BY ">> \o col \o <<" ", ord, " LIMIT ", "?", " OFFSET ", "?">>

\* Mutant: limit and offset are bound before the filter parameters.
GamesParamsLimitFirst(vr, base, lim, off) ==
  IF vr = "A" THEN base ELSE <<NumParam(lim), NumParam(off)>> \o base

\* gamesParams
GamesParams(vr, base, lim, off) ==
  IF vr = "A" THEN base ELSE base \o <<NumParam(lim), NumParam(off)>>

\* Mutant: the parameter count is not checked.
ParamCountUnchecked(vr, text, params) == FALSE

\* if (gamesParams.length !== (gamesQuery.match(/\?/g) || []).length) throw
ParamCountMismatch(vr, text, params) ==
  vr = "A" /\ Len(params) # Placeholders(text)

\* Mutant: Math.floor in place of Math.ceil.
TotalPagesFloor(total, lim) ==
  IF total.nan \/ lim.nan \/ lim.v = 0 THEN NaN ELSE Num(total.v \div lim.v)

\* totalPages = Math.ceil(totalGames / limitNum)
TotalPages(total, lim) == MathCeilDiv(total, lim)

\* The pagination object of the 200 response.
Pagination(p, l, total) ==
  [currentPage |-> p,
   totalPages |-> TotalPages(total, l),
   totalGames |-> total,
   gamesPerPage |-> l,
   hasNextPage |-> Less(p, TotalPages(total, l)),
   hasPrevPage |-> Less(Num(1), p)]

NoPagination ==
  [currentPage |-> NaN, totalPages |-> NaN, totalGames |-> NaN,
   gamesPerPage |-> NaN, hasNextPage |-> FALSE, hasPrevPage |-> FALSE]

\* res.json({success: true, data: {games, pagination}})
OkResponse(rows, p, l, total) ==
  [status |-> 200, success |-> TRUE, message |-> "", games |-> rows,
   pagination |-> Pagination(p, l, total)]

\* catch (error): res.status(500).json({success: false, message: ..})
ErrorResponse ==
  [status |-> 500, success |-> FALSE, message |-> "Error fetching games",
   games |-> 0, pagination |-> NoPagination]

NoResponse ==
  [status |-> 0, success |-> FALSE, message |-> "", games |-> 0,
   pagination |-> NoPagination]

--------------------------------------------------------------------------
(* The requests served: values of req.query as express parses them.       *)

PageInputs ==
  { Undef, Str(<<>>), Str(<<"0">>), Str(<<"1">>), Str(<<"3">>),
    Str(<<"-", "1">>), Str(<<"a">>), Str(<<"2", "a">>),
    Arr(<<"3", ",", "1">>), Obj }

LimitInputs ==
  { Undef, Str(<<>>), Str(<<"0">>), Str(<<"1">>), Str(<<"5">>),
    Str(<<"1", "0", "0">>), Str(<<"1", "0", "1">>), Str(<<"-", "5">>),
    Str(<<"a">>), Str(<<" ", "7">>), Arr(<<"5", ",", "9">>) }

SortByInputs ==
  { Undef, Str(<<"n", "a", "m", "e">>),
    Str(<<"p", "r", "i", "c", "e", "_", "u", "s", "d">>),
    Str(<<"c", "r", "e", "a", "t", "e", "d", "_", "a", "t">>),
    Str(<<"x">>), Str(<<"?">>), Str(<<>>),
    Arr(<<"n", "a", "m", "e">>) }

OrderInputs ==
  { Undef, Str(<<"d", "e", "s", "c">>), Str(<<"D", "E", "S", "C">>),
    Str(<<"D", "e", "s", "c">>), Str(<<"a", "s", "c">>), Str(<<>>),
    Str(<<"d", "e", "s", "c", "x">>),
    Arr(<<"d", "e", "s", "c", ",", "a", "s", "c">>), Obj }

SearchInputs ==
  { Undef, Str(<<>>), Str(<<"a">>), Str(<<"?">>), Str(<<"%", "b">>) }

BoundInputs ==
  { Undef, Str(<<>>), Str(<<"0">>), Str(<<"5">>), Str(<<"a">>) }

FewBoundInputs == { Undef, Str(<<"9">>), Str(<<"a">>) }

Query(search, minPrice, maxPrice, minHours, maxHours, sortBy, order, page, limit) ==
  [search |-> search, minPrice |-> minPrice, maxPrice |-> maxPrice,
   minHours |-> minHours, maxHours |-> maxHours, sortBy |-> sortBy,
   order |-> order, page |-> page, limit |-> limit]

NoQuery == Query(Undef, Undef, Undef, Undef, Undef, Undef, Undef, Undef, Undef)

\* Every page and limit, alone and with the search of the spec's scenario.
PaginationQueries ==
  { Query(se, Undef, Undef, Undef, Undef, sb, ord, p, l) :
      se \in {Undef, Str(<<"a">>)},
      sb \in {Undef, Str(<<"p", "r", "i", "c", "e", "_", "u", "s", "d">>)},
      ord \in {Str(<<"D", "E", "S", "C">>)},
      p \in PageInputs, l \in LimitInputs }

\* Every sortBy and order.
SortQueries ==
  { Query(se, Undef, mp, Undef, Undef, sb, ord, Undef, l) :
      se \in {Undef, Str(<<"a">>)}, mp \in {Undef, Str(<<"5">>)},
      sb \in SortByInputs, ord \in OrderInputs,
      l \in {Undef, Str(<<"5">>)} }

\* Every combination of the five filters.
FilterQueries ==
  { Query(se, a, b, c, d, Undef, Undef, Undef, Undef) :
      se \in SearchInputs, a \in BoundInputs, b \in FewBoundInputs,
      c \in FewBoundInputs, d \in BoundInputs }

Queries == PaginationQueries \cup SortQueries \cup FilterQueries

\* Requests that differ in the values of their filters, and a few that
\* differ in more.
PairQueries ==
  { Query(se, a, b, Undef, d, Undef, ord, Undef, Undef) :
      se \in {Undef, Str(<<"a">>), Str(<<"?">>)},
      a \in {Undef, Str(<<"5">>), Str(<<"a">>)},
      b \in {Undef, Str(<<"9">>)},
      d \in {Str(<<>>), Str(<<"0">>), Str(<<"5">>)},
      ord \in {Undef, Str(<<"d", "e", "s", "c">>)} }

--------------------------------------------------------------------------
(* The server: one request to GET /api/games at a time, and the table.     *)
(* matching is the number of rows of steam_games that satisfy the WHERE    *)
(* clause of the request in hand.                                          *)

NoPrev == [set |-> FALSE, query |-> NoQuery, countQuery |-> <<>>,
           gamesQuery |-> <<>>, countParams |-> <<>>, gamesParams |-> <<>>]

\* The requests the other handlers can be serving at once, and a slot or
\* the router with no request in it.
Slots == {"r1", "r2"}

NoBody == [username |-> Undef, email |-> Undef, password |-> Undef]

NoRow == [id |-> 0, username |-> <<>>, email |-> <<>>, password_hash |-> <<>>]

NoAuthResponse == [status |-> 0, success |-> FALSE, message |-> "",
                   user |-> NoRow]

NoRequest == [kind |-> "none", pc |-> "idle", body |-> NoBody, row |-> NoRow,
              hash |-> <<>>, threw |-> FALSE, statements |-> 0,
              hashOps |-> 0, before |-> 0, dup |-> "",
              response |-> NoAuthResponse]

NoRouteResponse == [status |-> 0, success |-> FALSE, message |-> "",
                    data |-> "none", by |-> ""]

\* mysql.createPool({ waitForConnections: true, connectionLimit: 10,
\* queueLimit: 0 }): a queue limit of 0 is no limit.
waitForConnections == TRUE
connectionLimit == 10
queueLimit == 0

\* The callers of the pool: 0 is testConnection, the others are the
\* pool.execute calls of the handlers.
MaxStatements == 11
Callers == 0..MaxStatements

\* No connection has been asked for.
PoolAtStart == [state |-> [i \in Callers |-> "idle"], queue |-> <<>>]

NoRoute == [pc |-> "idle", method |-> "", path |-> <<>>, layer |-> 0,
            handler |-> "", result |-> "", threw |-> FALSE, statements |-> 0,
            response |-> NoRouteResponse]

Init ==
  /\ variant \in {"A", "B"}
  /\ matching \in 0..MaxRows
  /\ pc = "idle"
  /\ query = NoQuery
  /\ pageNum = NaN
  /\ limitNum = NaN
  /\ offset = NaN
  /\ countQuery = <<>>
  /\ countParams = <<>>
  /\ totalGames = NaN
  /\ gamesQuery = <<>>
  /\ gamesParams = <<>>
  /\ response = NoResponse
  /\ prev = NoPrev
  /\ users = <<>>
  /\ reqs = [s \in Slots |-> NoRequest]
  /\ route = NoRoute
  /\ pool = PoolAtStart

\* The rows a fetch returns from a table with m matching rows: the slice
\* [off, off + lim); with NaN bound for LIMIT or OFFSET the engine's answer
\* is not determined by the handler.
FetchRows(m, lim, off) ==
  IF lim.nan \/ off.nan THEN 0..m
  ELSE LET rest == IF m - off.v > 0 THEN m - off.v ELSE 0
       IN {IF lim.v < rest THEN lim.v ELSE rest}

\* The handler from its entry to the first await (the count query), or to
\* its catch when order.toUpperCase() throws.
ReceiveCore(Q) ==
  /\ pc = "idle"
  /\ \E q \in Q :
       /\ query' = q
       /\ pageNum' = PageNum(variant, q)
       /\ limitNum' = LimitNum(variant, q)
       /\ offset' = Offset(PageNum(variant, q), LimitNum(variant, q))
       /\ totalGames' = NaN
       /\ gamesQuery' = <<>>
       /\ gamesParams' = <<>>
       /\ IF OrderThrows(q)
            THEN /\ countQuery' = <<>>
                 /\ countParams' = <<>>
                 /\ response' = ErrorResponse
                 /\ pc' = "done"
            ELSE /\ countQuery' =
                      CountQuery(WhereClause(WhereConditions(variant, q)))
                 /\ countParams' = BaseParams(variant, q)
                 /\ response' = NoResponse
                 /\ pc' = "count"
  /\ UNCHANGED otherVars
  /\ UNCHANGED <<variant, prev>>

\* A request against a table with a given number of matching rows.
Receive(Q) == ReceiveCore(Q) /\ UNCHANGED matching

\* The count query returns: totalGames, then the fetch query is built and,
\* in A, its parameter count checked, and the fetch is issued.  The
\* parameter list is the handler's own, or one of others to put the check
\* to the test.
CountReturnsWith(others) ==
  /\ pc = "count"
  /\ LET w == WhereClause(WhereConditions(variant, query))
         text == GamesQuery(variant, w, SortColumn(query), SortOrder(query),
                            limitNum, offset)
         own == GamesParams(variant, BaseParams(variant, query),
                            limitNum, offset)
     IN \E params \in {own} \cup others :
          /\ totalGames' = Num(matching)
          /\ gamesQuery' = text
          /\ gamesParams' = params
          /\ IF ParamCountMismatch(variant, text, params)
               THEN response' = ErrorResponse /\ pc' = "done"
               ELSE response' = response /\ pc' = "fetch"
  /\ UNCHANGED otherVars
  /\ UNCHANGED <<variant, matching, query, pageNum, limitNum, offset,
                 countQuery, countParams, prev>>

CountReturns == CountReturnsWith({})

\* The fetch query returns: the pagination info and the 200 response.
FetchReturns ==
  /\ pc = "fetch"
  /\ \E rows \in FetchRows(matching, limitNum, offset) :
       response' = OkResponse(rows, pageNum, limitNum, totalGames)
  /\ pc' = "done"
  /\ UNCHANGED otherVars
  /\ UNCHANGED <<variant, matching, query, pageNum, limitNum, offset,
                 countQuery, countParams, totalGames, gamesQuery,
                 gamesParams, prev>>

\* pool.execute rejects (the database fails): the catch answers 500.
ExecuteFails ==
  /\ pc \in {"count", "fetch"}
  /\ response' = ErrorResponse
  /\ pc' = "done"
  /\ UNCHANGED otherVars
  /\ UNCHANGED <<variant, matching, query, pageNum, limitNum, offset,
                 countQuery, countParams, totalGames, gamesQuery,
                 gamesParams, prev>>

\* The handler returns after its response and its locals are gone; the
\* next request may come.  prev is a history variable: with keep, it
\* remembers the queries of the last request answered 200.
RequestEndWith(keep) ==
  /\ pc = "done"
  /\ pc' = "idle"
  /\ query' = NoQuery
  /\ pageNum' = NaN
  /\ limitNum' = NaN
  /\ offset' = NaN
  /\ countQuery' = <<>>
  /\ countParams' = <<>>
  /\ totalGames' = NaN
  /\ gamesQuery' = <<>>
  /\ gamesParams' = <<>>
  /\ response' = NoResponse
  /\ prev' = IF keep /\ response.status = 200
               THEN [set |-> TRUE, query |-> query,
                     countQuery |-> countQuery, gamesQuery |-> gamesQuery,
                     countParams |-> countParams,
                     gamesParams |-> gamesParams]
               ELSE prev
  /\ UNCHANGED otherVars
  /\ UNCHANGED <<variant, matching>>

RequestEnd == RequestEndWith(FALSE)

RequestEndKept == RequestEndWith(TRUE)

ReceiveQuery == Receive(Queries)

Next == ReceiveQuery \/ CountReturns \/ FetchReturns \/ ExecuteFails
        \/ RequestEnd

Spec == Init /\ [][Next]_vars

ReceivePair == Receive(PairQueries)

NextPair == ReceivePair \/ CountReturns \/ FetchReturns \/ ExecuteFails
            \/ RequestEndKept

\* The server serving one request after another, remembering the last
\* request it answered, over a table that holds MaxRows matching rows.
InitPair == Init /\ matching = MaxRows

SpecPair == InitPair /\ [][NextPair]_vars

--------------------------------------------------------------------------
(* The table changing while a request is served: steam_games is filled     *)
(* outside the server, and the handler's count and fetch are two           *)
(* statements, each awaited, with no transaction around them.              *)

\* Requests whose page and limit parse.
RaceQueries ==
  { Query(se, Undef, Undef, Undef, Undef, Undef, Undef, p, l) :
      se \in {Undef, Str(<<"a">>)},
      p \in {Undef, Str(<<"1">>), Str(<<"2">>)},
      l \in {Undef, Str(<<"1">>), Str(<<"5">>)} }

\* A matching row is inserted into or deleted from steam_games.
TableChanges ==
  /\ \E m \in {matching - 1, matching + 1} :
       /\ m >= 0 /\ m <= MaxRows
       /\ matching' = m
  /\ UNCHANGED otherVars
  /\ UNCHANGED <<variant, pc, query, pageNum, limitNum, offset, countQuery,
                 countParams, totalGames, gamesQuery, gamesParams, response,
                 prev>>

ReceiveRace == Receive(RaceQueries)

NextRace == ReceiveRace \/ CountReturns \/ FetchReturns \/ ExecuteFails
            \/ RequestEnd \/ TableChanges

SpecRace == Init /\ [][NextRace]_vars

\* The parameter-count check put to the test: the fetch query is the
\* handler's, the parameter list any of these.
ParamLists ==
  { <<>>, <<StrParam(<<"%", "a", "%">>)>>,
    <<StrParam(<<"%", "a", "%">>), NumParam(Num(5))>>,
    <<StrParam(<<"%", "a", "%">>), NumParam(Num(5)), NumParam(Num(0))>> }

CheckQueries ==
  { Query(se, mp, Undef, Undef, Undef, Undef, Undef, p, Undef) :
      se \in {Undef, Str(<<"a">>)},
      mp \in {Undef, Str(<<"5">>)},
      p \in {Undef, Str(<<"2">>)} }

ReceiveCheck == Receive(CheckQueries)

CountReturnsAny == CountReturnsWith(ParamLists)

NextCheck == ReceiveCheck \/ CountReturnsAny \/ FetchReturns \/ ExecuteFails
             \/ RequestEnd

SpecCheck == Init /\ [][NextCheck]_vars

\* The engine's LIKE: '%' stands for any characters, '_' for any one
\* character, a backslash takes the next character literally.  (Names and
\* terms here are in one case; the collation's folding is left out.)
RECURSIVE Like(_, _)
Like(name, pattern) ==
  IF pattern = <<>> THEN name = <<>>
  ELSE IF Head(pattern) = "%"
    THEN \E k \in 0..Len(name) :
           Like(SubSeq(name, k + 1, Len(name)), Tail(pattern))
  ELSE IF Head(pattern) = "\\" /\ Len(pattern) >= 2
    THEN /\ name # <<>>
         /\ Head(name) = pattern[2]
         /\ Like(Tail(name), Tail(Tail(pattern)))
  ELSE /\ name # <<>>
       /\ Head(pattern) \in {"_", Head(name)}
       /\ Like(Tail(name), Tail(pattern))

\* The names in steam_games, and the rows a WHERE clause of the search
\* filter alone selects for its parameters.
GameNames ==
  { <<"a", "b", "c">>, <<"a", "_", "c">>, <<"a", "%", "c">>, <<"a", "c">>,
    <<"x">> }

Selected(params) ==
  IF params = <<>> THEN GameNames
  ELSE {n \in GameNames : Like(n, params[1].s)}

SearchQueries ==
  { Query(se, Undef, Undef, Undef, Undef, Undef, Undef, p, l) :
      se \in {Undef, Str(<<"b">>), Str(<<"c">>), Str(<<"z">>), Str(<<"_">>),
              Str(<<"%">>), Str(<<"a", "_", "c">>), Str(<<"a", "%", "c">>)},
      p \in {Undef, Str(<<"2">>)},
      l \in {Undef, Str(<<"1">>)} }

\* A search against the table of names: the matching rows are those the
\* engine selects for the bound pattern.
ReceiveSearch ==
  /\ ReceiveCore(SearchQueries)
  /\ matching' = Cardinality(Selected(countParams'))

NextSearch == ReceiveSearch \/ CountReturns \/ FetchReturns \/ ExecuteFails
              \/ RequestEnd

SpecSearch == InitPair /\ [][NextSearch]_vars

--------------------------------------------------------------------------
(* The users table, bcrypt and POST /api/login.                            *)

\* A JSON number in a request body, by its text.
JNum(s) == [t |-> "num", s |-> s]

\* Truthiness of a body value: undefined, '' and 0 are falsy.
BodyTruthy(x) == Truthy(x) \/ (x.t = "num" /\ x.s # <<"0">>)

\* bcrypt.hash(password, 12): cost and salt are written in front of the
\* digest; bcrypt.compare(password, hash) recomputes it under the salt it
\* reads from the hash.  The digest of a password stands for itself here, so
\* two passwords have the same digest only if they are equal.
Salts == {"s1", "s2"}
Hash(pw, salt) == <<"$2b$12$", salt>> \o pw
Verify(pw, h) ==
  /\ Len(h) >= 2
  /\ h[1] = "$2b$12$"
  /\ h = Hash(pw, h[2])

\* Mutant: the handler takes every password for valid.
CompareAny(pw, h) == TRUE

\* isPasswordValid: bcrypt.compare as the login handler calls it.
Compare(pw, h) == Verify(pw, h)

\* SELECT ... FROM users WHERE username = ? / WHERE email = ?
SelectByUsername(table, name) == SelectSeq(table, LAMBDA r : r.username = name)
SelectByEmail(table, mail) == SelectSeq(table, LAMBDA r : r.email = mail)

AuthResponse(st, ok, msg) ==
  [status |-> st, success |-> ok, message |-> msg, user |-> NoRow]

\* Mutant: the lookup that finds nothing says so.
UserNotFoundResponse == AuthResponse(404, FALSE, "User not found")

\* rows.length === 0
NoSuchUserResponse == AuthResponse(401, FALSE, "Invalid username or password")

\* !isPasswordValid
WrongPasswordResponse ==
  AuthResponse(401, FALSE, "Invalid username or password")

InternalErrorResponse == AuthResponse(500, FALSE, "Internal server error")

\* The user summary of a login: A selects and returns the id, B does not
\* (an id of 0 is no id).
LoginOkResponse(vr, row) ==
  [status |-> 200, success |-> TRUE, message |-> "Login successful",
   user |-> [NoRow EXCEPT !.username = row.username,
                          !.id = IF vr = "A" THEN row.id ELSE 0]]

\* Mutant: the first lookup is issued before the body is validated.
RejectedAfterLookup(kind, b, resp) ==
  [NoRequest EXCEPT !.kind = kind, !.pc = "done", !.body = b,
                    !.before = Len(users), !.statements = 1,
                    !.response = resp]

\* A request turned away by the validation of its body: the handler
\* returns the 400 before its first await.
Rejected(kind, b, resp) ==
  [NoRequest EXCEPT !.kind = kind, !.pc = "done", !.body = b,
                    !.before = Len(users), !.response = resp]

\* The handler from its entry to the 400 or to the awaited lookup.
LoginReceive(s, b) ==
  /\ reqs[s].pc = "idle"
  /\ reqs' = [reqs EXCEPT ![s] =
       IF ~BodyTruthy(b.username) \/ ~BodyTruthy(b.password)
       THEN Rejected("login", b,
                     AuthResponse(400, FALSE,
                                  "Username and password are required"))
       ELSE [NoRequest EXCEPT !.kind = "login", !.pc = "lookup", !.body = b,
                              !.statements = 1]]
  /\ UNCHANGED <<variant, pool, gamesVars, users, route>>

\* The lookup returns: 401 without a row, else bcrypt.compare is awaited.
LoginLookupReturns(s) ==
  /\ reqs[s].kind = "login" /\ reqs[s].pc = "lookup"
  /\ LET rows == SelectByUsername(users, reqs[s].body.username.s)
     IN reqs' = [reqs EXCEPT ![s] =
          IF Len(rows) = 0
          THEN [@ EXCEPT !.pc = "done", !.response = NoSuchUserResponse]
          ELSE [@ EXCEPT !.pc = "compare", !.row = rows[1],
                         !.hashOps = @ + 1]]
  /\ UNCHANGED <<variant, pool, gamesVars, users, route>>

\* bcrypt.compare returns (it does for two strings): 401 or the 200.
LoginCompareReturns(s) ==
  /\ reqs[s].kind = "login" /\ reqs[s].pc = "compare"
  /\ reqs[s].body.password.t = "str"
  /\ reqs' = [reqs EXCEPT ![s] =
       [@ EXCEPT !.pc = "done",
                 !.response =
                   IF Compare(reqs[s].body.password.s, reqs[s].row.password_hash)
                   THEN LoginOkResponse(variant, reqs[s].row)
                   ELSE WrongPasswordResponse]]
  /\ UNCHANGED <<variant, pool, gamesVars, users, route>>

\* Mutant: the catch logs the error and sends nothing.
LoginFailsUnanswered(s) ==
  /\ reqs[s].kind = "login" /\ reqs[s].pc \in {"lookup", "compare"}
  /\ reqs' = [reqs EXCEPT ![s] = [@ EXCEPT !.pc = "caught", !.threw = TRUE]]
  /\ UNCHANGED <<variant, pool, gamesVars, users, route>>

\* pool.execute or bcrypt.compare throws: the catch answers 500.
LoginFails(s) ==
  /\ reqs[s].kind = "login" /\ reqs[s].pc \in {"lookup", "compare"}
  /\ reqs' = [reqs EXCEPT ![s] =
       [@ EXCEPT !.pc = "done", !.threw = TRUE,
                 !.response = InternalErrorResponse]]
  /\ UNCHANGED <<variant, pool, gamesVars, users, route>>

\* The response is sent and the request is over.
AuthEnd(s) ==
  /\ reqs[s].pc = "done"
  /\ reqs' = [reqs EXCEPT ![s] = NoRequest]
  /\ UNCHANGED <<variant, pool, gamesVars, users, route>>

\* Usernames, passwords and the tables logins are tried against.
Alice == <<"a", "l">>
Bob == <<"b", "o">>
Secret == <<"p", "w">>
Other == <<"p", "x">>

UserRow(i, name, mail, pw, salt) ==
  [id |-> i, username |-> name, email |-> mail, password_hash |-> Hash(pw, salt)]

LoginTables ==
  { <<>>,
    <<UserRow(1, Alice, <<"a", "@", "b", ".", "c">>, Secret, "s1")>>,
    <<UserRow(1, Bob, <<"b", "@", "b", ".", "c">>, Other, "s2"),
      UserRow(2, Alice, <<"a", "@", "b", ".", "c">>, Secret, "s1")>> }

LoginBodies ==
  { [NoBody EXCEPT !.username = u, !.password = p] :
      u \in {Undef, Str(<<>>), Str(Alice), Str(Bob)},
      p \in {Undef, Str(<<>>), Str(Secret), Str(Other), JNum(<<"7">>)} }

\* The list handler and the router at rest.
GamesAtRest ==
  /\ matching = 0
  /\ pc = "idle"
  /\ query = NoQuery
  /\ pageNum = NaN
  /\ limitNum = NaN
  /\ offset = NaN
  /\ countQuery = <<>>
  /\ countParams = <<>>
  /\ totalGames = NaN
  /\ gamesQuery = <<>>
  /\ gamesParams = <<>>
  /\ response = NoResponse
  /\ prev = NoPrev

InitLogin ==
  /\ variant \in {"A", "B"}
  /\ GamesAtRest
  /\ users \in LoginTables
  /\ reqs = [s \in Slots |-> NoRequest]
  /\ route = NoRoute
  /\ pool = PoolAtStart

NextLogin ==
  \/ \E s \in Slots, b \in LoginBodies : LoginReceive(s, b)
  \/ \E s \in Slots : LoginLookupReturns(s)
  \/ \E s \in Slots : LoginCompareReturns(s)
  \/ \E s \in Slots : LoginFails(s)
  \/ \E s \in Slots : AuthEnd(s)

SpecLogin == InitLogin /\ [][NextLogin]_vars

--------------------------------------------------------------------------
(* POST /api/signup (first server only).                                   *)

Rep(c, n) == [i \in 1..n |-> c]

Chars(str) ==
  CASE str = "username" -> <<"u", "s", "e", "r", "n", "a", "m", "e">>
    [] str = "email" -> <<"e", "m", "a", "i", "l">>

\* String.prototype.includes.
Includes(text, needle) ==
  \E i \in 1..(Len(text) - Len(needle) + 1) :
    SubSeq(text, i, i + Len(needle) - 1) = needle

WordChars ==
  {"a", "b", "c", "d", "e", "f", "g", "h", "i", "j", "k", "l", "m", "n", "o",
   "p", "q", "r", "s", "t", "u", "v", "w", "x", "y", "z",
   "A", "B", "C", "D", "E", "F", "G", "H", "I", "J", "K", "L", "M", "N", "O",
   "P", "Q", "R", "S", "T", "U", "V", "W", "X", "Y", "Z",
   "0", "1", "2", "3", "4", "5", "6", "7", "8", "9", "_"}

Whitespace == {" ", "\t", "\n"}

\* Mutant: the bounds of the length check moved inwards by one.
UsernameLengthBadByOne(v) == v.t = "str" /\ (Len(v.s) < 4 \/ Len(v.s) > 19)

\* username.length < 3 || username.length > 20
UsernameLengthBad(v) == v.t = "str" /\ (Len(v.s) < 3 \/ Len(v.s) > 20)

\* /^[a-zA-Z0-9_]+$/.test(username)
UsernameCharsetOk(v) ==
  Len(v.s) > 0 /\ \A i \in 1..Len(v.s) : v.s[i] \in WordChars

\* /^[^\s@]+@[^\s@]+\.[^\s@]+$/.test(email): one '@', not first; after it
\* a '.' that is neither next to the '@' nor last; no white space.
EmailOk(v) ==
  \E i \in 2..Len(v.s) :
    /\ v.s[i] = "@"
    /\ \A k \in 1..Len(v.s) : k # i => v.s[k] \notin (Whitespace \cup {"@"})
    /\ \E j \in (i + 2)..(Len(v.s) - 1) : v.s[j] = "."

\* password.length < 6
PasswordTooShort(v) == v.t = "str" /\ Len(v.s) < 6

\* Mutant: a found email is reported as a found username.
EmailFoundAsUsername == AuthResponse(409, FALSE, "Username already exists")

UsernameTakenResponse == AuthResponse(409, FALSE, "Username already exists")
EmailTakenResponse == AuthResponse(409, FALSE, "Email already registered")

\* The lookup of the email found a row.
EmailFoundResponse == EmailTakenResponse

\* Mutant: the 201 echoes the submitted password.
SignupCreatedEchoesPassword(i, b) ==
  [status |-> 201, success |-> TRUE, message |-> "Account created successfully",
   user |-> [NoRow EXCEPT !.id = i, !.username = b.username.s,
                          !.email = b.email.s,
                          !.password_hash = b.password.s]]

SignupCreatedResponse(i, b) ==
  [status |-> 201, success |-> TRUE, message |-> "Account created successfully",
   user |-> [NoRow EXCEPT !.id = i, !.username = b.username.s,
                          !.email = b.email.s]]

\* Mutant: the password length is checked before the username.
SignupValidationPasswordFirst(b) ==
  IF ~BodyTruthy(b.username) \/ ~BodyTruthy(b.email) \/ ~BodyTruthy(b.password)
    THEN AuthResponse(400, FALSE, "Username, email, and password are required")
  ELSE IF PasswordTooShort(b.password)
    THEN AuthResponse(400, FALSE,
                      "Password must be at least 6 characters long")
  ELSE IF UsernameLengthBad(b.username)
    THEN AuthResponse(400, FALSE,
                      "Username must be between 3 and 20 characters")
  ELSE IF ~UsernameCharsetOk(b.username)
    THEN AuthResponse(400, FALSE,
           "Username can only contain letters, numbers, and underscores")
  ELSE IF ~EmailOk(b.email)
    THEN AuthResponse(400, FALSE, "Please enter a valid email address")
  ELSE NoAuthResponse

\* The validation of the body, in the handler's order: the 400 it answers,
\* or no response when the body passes.
SignupValidation(b) ==
  IF ~BodyTruthy(b.username) \/ ~BodyTruthy(b.email) \/ ~BodyTruthy(b.password)
    THEN AuthResponse(400, FALSE, "Username, email, and password are required")
  ELSE IF UsernameLengthBad(b.username)
    THEN AuthResponse(400, FALSE,
                      "Username must be between 3 and 20 characters")
  ELSE IF ~UsernameCharsetOk(b.username)
    THEN AuthResponse(400, FALSE,
           "Username can only contain letters, numbers, and underscores")
  ELSE IF ~EmailOk(b.email)
    THEN AuthResponse(400, FALSE, "Please enter a valid email address")
  ELSE IF PasswordTooShort(b.password)
    THEN AuthResponse(400, FALSE,
                      "Password must be at least 6 characters long")
  ELSE NoAuthResponse

\* Mutant: the table has no unique key.
NoKey(table, row) == TRUE

\* The unique keys of users, and the message of the ER_DUP_ENTRY error the
\* engine raises for the key an insert violates.
UsernameKeyHolds(table, row) ==
  \A i \in 1..Len(table) : table[i].username # row.username
EmailKeyHolds(table, row) ==
  \A i \in 1..Len(table) : table[i].email # row.email

KeyViolated(table, row) ==
  IF ~UsernameKeyHolds(table, row) THEN "username"
  ELSE IF ~EmailKeyHolds(table, row) THEN "email"
  ELSE ""

DupEntryMessage(value, key) ==
  <<"Duplicate entry '">> \o value \o <<"' for key '">> \o Chars(key) \o <<"'">>

\* The catch of the handler.
SignupCatchResponse(code, message) ==
  IF code = "ER_DUP_ENTRY" /\ Includes(message, Chars("username"))
    THEN UsernameTakenResponse
  ELSE IF code = "ER_DUP_ENTRY" /\ Includes(message, Chars("email"))
    THEN EmailTakenResponse
  ELSE InternalErrorResponse

MaxUsers == 2

\* The handler from its entry to a 400 or to the awaited username lookup.
\* (A request is let in while the table has room for its row, or when it
\* cannot add one.)
SignupReceive(s, b) ==
  /\ variant = "A"
  /\ reqs[s].pc = "idle"
  /\ \/ Len(users) < MaxUsers
     \/ SignupValidation(b) # NoAuthResponse
     \/ KeyViolated(users, [username |-> b.username.s, email |-> b.email.s]) # ""
  /\ reqs' = [reqs EXCEPT ![s] =
       IF SignupValidation(b) # NoAuthResponse
       THEN Rejected("signup", b, SignupValidation(b))
       ELSE [NoRequest EXCEPT !.kind = "signup", !.pc = "lookupUsername",
                              !.body = b, !.before = Len(users),
                              !.statements = 1]]
  /\ UNCHANGED <<variant, pool, gamesVars, users, route>>

SignupUsernameLookupReturns(s) ==
  /\ reqs[s].kind = "signup" /\ reqs[s].pc = "lookupUsername"
  /\ reqs' = [reqs EXCEPT ![s] =
       IF Len(SelectByUsername(users, reqs[s].body.username.s)) > 0
       THEN [@ EXCEPT !.pc = "done", !.response = UsernameTakenResponse]
       ELSE [@ EXCEPT !.pc = "lookupEmail", !.statements = @ + 1]]
  /\ UNCHANGED <<variant, pool, gamesVars, users, route>>

SignupEmailLookupReturns(s) ==
  /\ reqs[s].kind = "signup" /\ reqs[s].pc = "lookupEmail"
  /\ reqs' = [reqs EXCEPT ![s] =
       IF Len(SelectByEmail(users, reqs[s].body.email.s)) > 0
       THEN [@ EXCEPT !.pc = "done", !.response = EmailFoundResponse]
       ELSE [@ EXCEPT !.pc = "hash", !.hashOps = @ + 1]]
  /\ UNCHANGED <<variant, pool, gamesVars, users, route>>

\* bcrypt.hash returns and the insert is issued.
SignupHashReturns(s) ==
  /\ reqs[s].kind = "signup" /\ reqs[s].pc = "hash"
  /\ reqs[s].body.password.t = "str"
  /\ \E salt \in Salts :
       reqs' = [reqs EXCEPT ![s] =
         [@ EXCEPT !.pc = "insert", !.statements = @ + 1,
                   !.hash = Hash(reqs[s].body.password.s, salt)]]
  /\ UNCHANGED <<variant, pool, gamesVars, users, route>>

\* The insert returns: the row is in the table and the 201 is sent, or the
\* engine refuses it for a unique key and the catch answers.
SignupInsertReturns(s) ==
  /\ reqs[s].kind = "signup" /\ reqs[s].pc = "insert"
  /\ LET b == reqs[s].body
         row == [id |-> Len(users) + 1, username |-> b.username.s,
                 email |-> b.email.s, password_hash |-> reqs[s].hash]
         key == KeyViolated(users, row)
     IN IF key = ""
        THEN /\ users' = Append(users, row)
             /\ reqs' = [reqs EXCEPT ![s] =
                  [@ EXCEPT !.pc = "done",
                            !.response = SignupCreatedResponse(row.id, b)]]
        ELSE /\ users' = users
             /\ reqs' = [reqs EXCEPT ![s] =
                  [@ EXCEPT !.pc = "done", !.threw = TRUE, !.dup = key,
                            !.response =
                              SignupCatchResponse("ER_DUP_ENTRY",
                                DupEntryMessage(IF key = "username"
                                                THEN b.username.s
                                                ELSE b.email.s, key))]]
  /\ UNCHANGED <<variant, pool, gamesVars, route>>

\* Mutant: the insert is applied and the request is answered 500.
SignupFailsAfterInsert(s) ==
  /\ reqs[s].kind = "signup"
  /\ reqs[s].pc \in {"lookupUsername", "lookupEmail", "hash", "insert"}
  /\ reqs' = [reqs EXCEPT ![s] =
       [@ EXCEPT !.pc = "done", !.threw = TRUE,
                 !.response = SignupCatchResponse("OTHER", <<>>)]]
  /\ users' = IF reqs[s].pc = "insert"
              THEN Append(users, [id |-> Len(users) + 1,
                                  username |-> reqs[s].body.username.s,
                                  email |-> reqs[s].body.email.s,
                                  password_hash |-> reqs[s].hash])
              ELSE users
  /\ UNCHANGED <<variant, pool, gamesVars, route>>

\* pool.execute or bcrypt.hash throws something else: the catch answers 500.
SignupFails(s) ==
  /\ reqs[s].kind = "signup"
  /\ reqs[s].pc \in {"lookupUsername", "lookupEmail", "hash", "insert"}
  /\ reqs' = [reqs EXCEPT ![s] =
       [@ EXCEPT !.pc = "done", !.threw = TRUE,
                 !.response = SignupCatchResponse("OTHER", <<>>)]]
  /\ UNCHANGED <<variant, pool, gamesVars, users, route>>

\* Bodies of signup requests.
ShortName == Rep("a", 2)
MinName == Rep("a", 3)
MaxName == Rep("b", 20)
LongName == Rep("b", 21)
ThirdName == Rep("c", 4)
Mail == <<"a", "@", "b", ".", "c">>
UsernameMail == Chars("username") \o <<"@", "b", ".", "c">>
ThirdMail == <<"c", "@", "b", ".", "c">>
GoodPassword == Rep("p", 6)

SignupBody(u, e, p) == [username |-> u, email |-> e, password |-> p]

SignupBodies ==
  { SignupBody(u, e, p) :
      u \in {Undef, Str(ShortName), Str(MinName), Str(MaxName), Str(LongName),
             Str(ThirdName), Str(<<"a", "-", "b">>)},
      e \in {Undef, Str(Mail), Str(UsernameMail), Str(ThirdMail),
             Str(<<"a", "@", "b">>)},
      p \in {Undef, Str(Rep("p", 5)), Str(GoodPassword)} }

\* Bodies that pass validation, for signups served side by side.
ValidBodies ==
  { SignupBody(Str(u), Str(e), Str(GoodPassword)) :
      u \in {MinName, MaxName, ThirdName}, e \in {Mail, UsernameMail} }

InitSignup ==
  /\ variant = "A"
  /\ GamesAtRest
  /\ users = <<>>
  /\ reqs = [s \in Slots |-> NoRequest]
  /\ route = NoRoute
  /\ pool = PoolAtStart

\* The steps of a signup after its arrival.
SignupStep(s) ==
  \/ SignupUsernameLookupReturns(s)
  \/ SignupEmailLookupReturns(s)
  \/ SignupHashReturns(s)
  \/ SignupInsertReturns(s)
  \/ SignupFails(s)
  \/ AuthEnd(s)

\* One signup at a time.
NextSignup ==
  \/ \E b \in SignupBodies : SignupReceive("r1", b)
  \/ \E s \in Slots : SignupStep(s)

SpecSignup == InitSignup /\ [][NextSignup]_vars

\* Signups whose JSON body carries numbers as well as strings:
\* express.json() hands the handler the parsed values as they are.
JsonBodies ==
  { SignupBody(u, e, p) :
      u \in {Str(ShortName), Str(MinName), JNum(<<"0">>), JNum(<<"1", "2">>),
             JNum(<<"1", "2", "3">>)},
      e \in {Str(Mail), Str(ThirdMail), JNum(<<"1">>)},
      p \in {Str(Rep("p", 5)), Str(GoodPassword), JNum(Rep("1", 6))} }

NextSignupJson ==
  \/ \E b \in JsonBodies : SignupReceive("r1", b)
  \/ \E s \in Slots : SignupStep(s)

SpecSignupJson == InitSignup /\ [][NextSignupJson]_vars

\* Logins and signups, one request at a time, on either server (the second
\* has no signup route).
AuthLoginBodies ==
  { [NoBody EXCEPT !.username = u, !.password = p] :
      u \in {Undef, Str(MinName), Str(MaxName)},
      p \in {Undef, Str(GoodPassword), Str(Rep("p", 5))} }

InitAuth ==
  /\ variant \in {"A", "B"}
  /\ GamesAtRest
  /\ users = <<>>
  /\ reqs = [s \in Slots |-> NoRequest]
  /\ route = NoRoute
  /\ pool = PoolAtStart

NextAuth ==
  \/ \E b \in AuthLoginBodies : LoginReceive("r1", b)
  \/ \E b \in SignupBodies : SignupReceive("r1", b)
  \/ \E s \in Slots : LoginLookupReturns(s)
  \/ \E s \in Slots : LoginCompareReturns(s)
  \/ \E s \in Slots : LoginFails(s)
  \/ \E s \in Slots : SignupStep(s)

SpecAuth == InitAuth /\ [][NextAuth]_vars

\* Signups served side by side.
NextSignupRace ==
  \/ \E s \in Slots, b \in ValidBodies : SignupReceive(s, b)
  \/ \E s \in Slots : SignupStep(s)

SpecSignupRace == InitSignup /\ [][NextSignupRace]_vars

--------------------------------------------------------------------------
(* The router and the handlers of the path-parameter, statistics and       *)
(* owned-games routes.  A path is the sequence of its segments, decoded;   *)
(* a segment is a sequence of pieces: a word of a route, or single         *)
(* characters.                                                             *)

Route(m, pattern, h) == [method |-> m, pattern |-> pattern, handler |-> h,
                         error |-> FALSE]

ParamNames == {":id", ":appid"}

\* The layers of the application in the order they are registered; the
\* parsers and express.static come first and pass these requests on.
LayersA ==
  << Route("GET", <<>>, "page"),
     Route("GET", <<"dashboard">>, "page"),
     Route("POST", <<"api", "login">>, "login"),
     Route("POST", <<"api", "signup">>, "signup"),
     Route("GET", <<"signup">>, "page"),
     Route("GET", <<"api", "games">>, "games"),
     Route("GET", <<"api", "games", ":id">>, "gameById"),
     Route("GET", <<"api", "games", "steam", ":appid">>, "gameBySteamId"),
     Route("GET", <<"api", "owned-games">>, "ownedGames"),
     Route("GET", <<"api", "games", "stats">>, "stats"),
     Route("GET", <<"api", "health">>, "health"),
     [method |-> "*", pattern |-> <<"*">>, handler |-> "notFound",
      error |-> FALSE],
     [method |-> "*", pattern |-> <<>>, handler |-> "errorMiddleware",
      error |-> TRUE] >>

LayersB ==
  << Route("GET", <<>>, "page"),
     Route("GET", <<"dashboard">>, "page"),
     Route("POST", <<"api", "login">>, "login"),
     Route("GET", <<"api", "games">>, "games"),
     Route("GET", <<"api", "games", ":id">>, "gameById"),
     Route("GET", <<"api", "games", "steam", ":appid">>, "gameBySteamId"),
     Route("GET", <<"api", "games", "stats">>, "stats"),
     Route("GET", <<"api", "health">>, "health"),
     [method |-> "*", pattern |-> <<"*">>, handler |-> "notFound",
      error |-> FALSE],
     [method |-> "*", pattern |-> <<>>, handler |-> "errorMiddleware",
      error |-> TRUE] >>

Layers(vr) == IF vr = "A" THEN LayersA ELSE LayersB

\* A layer takes a request: app.use('*') takes every path and method, a
\* route its method and the paths of its pattern, a parameter standing for
\* any segment.
Matches(layer, m, path) ==
  \/ layer.method = "*"
  \/ /\ layer.method = m
     /\ Len(layer.pattern) = Len(path)
     /\ \A i \in 1..Len(path) :
          \/ layer.pattern[i] \in ParamNames
          \/ path[i] = <<layer.pattern[i]>>

\* Mutant: next(error) goes on like next().
NextLayerAnyError(vr, m, path, from, err) ==
  CHOOSE i \in from..Len(Layers(vr)) :
    /\ ~Layers(vr)[i].error /\ Matches(Layers(vr)[i], m, path)
    /\ \A j \in from..(i - 1) :
         ~(~Layers(vr)[j].error /\ Matches(Layers(vr)[j], m, path))

\* The first layer from position from on that takes the request: with an
\* error only error-handling middleware, without one only the others.
NextLayer(vr, m, path, from, err) ==
  CHOOSE i \in from..Len(Layers(vr)) :
    /\ Layers(vr)[i].error = err /\ Matches(Layers(vr)[i], m, path)
    /\ \A j \in from..(i - 1) :
         ~(Layers(vr)[j].error = err /\ Matches(Layers(vr)[j], m, path))

RECURSIVE TrimEnd(_)
TrimEnd(s) ==
  IF s # <<>> /\ s[Len(s)] = " " THEN TrimEnd(SubSeq(s, 1, Len(s) - 1)) ELSE s

\* Digits with at most one decimal point.
DecimalLiteral(u) ==
  /\ \E i \in 1..Len(u) : IsDigit(u[i])
  /\ \A i \in 1..Len(u) : IsDigit(u[i]) \/ u[i] = "."
  /\ \A i, j \in 1..Len(u) : (u[i] = "." /\ u[j] = ".") => i = j

Unsigned(t) == IF t # <<>> /\ Head(t) \in {"+", "-"} THEN Tail(t) ELSE t

\* isNaN(string), that is isNaN(Number(string)): white space around the text
\* is dropped, the empty text is 0, a signed decimal literal or Infinity is
\* a number, everything else over these characters is NaN.
IsNaN(v) ==
  LET t == TrimEnd(StripWs(v))
  IN /\ t # <<>>
     /\ Unsigned(t) # <<"Infinity">>
     /\ ~DecimalLiteral(Unsigned(t))

RouteResponse(st, ok, msg, d, h) ==
  [status |-> st, success |-> ok, message |-> msg, data |-> d, by |-> h]

\* The parameter of the two lookups by path value and their messages.
PathValue(path) == path[Len(path)]
InvalidMessage(h) ==
  IF h = "gameById" THEN "Invalid game ID" ELSE "Invalid Steam App ID"
FailureMessage(h) ==
  IF h = "stats" THEN "Error fetching game statistics" ELSE "Error fetching game"

Handled == {"gameById", "gameBySteamId", "ownedGames", "stats", "health",
            "notFound"}

\* The router hands the request to the first layer that takes it, and the
\* handler runs to its response or to its first await.
RouteReceive(m, path) ==
  /\ route.pc = "idle"
  /\ LET i == NextLayer(variant, m, path, 1, FALSE)
         h == Layers(variant)[i].handler
         r == [NoRoute EXCEPT !.method = m, !.path = path, !.layer = i,
                              !.handler = h]
     IN /\ h \in Handled
        /\ route' =
             CASE h \in {"gameById", "gameBySteamId"} ->
                    IF PathValue(path) = <<>> \/ IsNaN(PathValue(path))
                    THEN [r EXCEPT !.pc = "done",
                                   !.response = RouteResponse(400, FALSE,
                                                  InvalidMessage(h), "none", h)]
                    ELSE [r EXCEPT !.pc = "await", !.statements = 1]
               [] h = "stats" -> [r EXCEPT !.pc = "await", !.statements = 1]
               [] h = "ownedGames" -> [r EXCEPT !.pc = "await"]
               [] h = "health" ->
                    [r EXCEPT !.pc = "done",
                              !.response = RouteResponse(200, TRUE,
                                             "Server is running", "none", h)]
               [] h = "notFound" ->
                    [r EXCEPT !.pc = "done",
                              !.response = RouteResponse(404, FALSE,
                                             "Endpoint not found", "none", h)]
  /\ UNCHANGED <<variant, pool, gamesVars, users, reqs>>

\* What the awaited call can return to each handler.
Results(h) ==
  CASE h = "stats" -> {"statistics"}
    [] h = "ownedGames" -> {"games", "noGames", "noResponse"}
    [] OTHER -> {"row", "noRow"}

\* The statement or the upstream call returns.
RouteAwaitReturns ==
  /\ route.pc = "await"
  /\ \E res \in Results(route.handler) :
       route' = [route EXCEPT
         !.pc = "done",
         !.result = res,
         !.response =
           CASE res = "row" ->
                  RouteResponse(200, TRUE, "", "game", route.handler)
             [] res = "noRow" ->
                  RouteResponse(404, FALSE, "Game not found", "none",
                                route.handler)
             [] res = "statistics" ->
                  RouteResponse(200, TRUE, "", "statistics", route.handler)
             [] res = "games" ->
                  RouteResponse(200, TRUE, "", "games", route.handler)
             [] OTHER ->
                  RouteResponse(404, FALSE,
                                "No games found or user profile is private",
                                "none", route.handler)]
  /\ UNCHANGED <<variant, pool, gamesVars, users, reqs>>

\* The statement or the upstream call throws: the database handlers answer
\* 500 in their catch, the owned-games handler calls next(error).
RouteAwaitFails ==
  /\ route.pc = "await"
  /\ IF route.handler = "ownedGames"
     THEN LET i == NextLayer(variant, route.method, route.path,
                             route.layer + 1, TRUE)
          IN route' = [route EXCEPT
               !.pc = "done", !.threw = TRUE, !.layer = i,
               !.response =
                 IF Layers(variant)[i].handler = "errorMiddleware"
                 THEN RouteResponse(500, FALSE, "Internal server error",
                                    "none", "errorMiddleware")
                 ELSE RouteResponse(404, FALSE, "Endpoint not found",
                                    "none", "notFound")]
     ELSE route' = [route EXCEPT
               !.pc = "done", !.threw = TRUE,
               !.response = RouteResponse(500, FALSE,
                              FailureMessage(route.handler), "none",
                              route.handler)]
  /\ UNCHANGED <<variant, pool, gamesVars, users, reqs>>

RouteEnd ==
  /\ route.pc = "done"
  /\ route' = NoRoute
  /\ UNCHANGED <<variant, pool, gamesVars, users, reqs>>

\* Requests: the routes under /api, with path values that are and are not
\* numbers.
PathValues ==
  { <<"4", "2">>, <<"7">>, <<"-", "1">>, <<"1", ".", "5">>, <<"4", "x">>,
    <<"a", "b", "c">>, <<" ">>, <<"Infinity">>, <<"stats">>, <<"steam">> }

Paths ==
     { << <<"api">>, <<"games">>, v >> : v \in PathValues }
  \cup { << <<"api">>, <<"games">>, <<"steam">>, v >> : v \in PathValues }
  \cup { << <<"api">>, <<"owned-games">> >>, << <<"api">>, <<"health">> >>,
         << <<"api">>, <<"nothing">> >> }

InitRoutes ==
  /\ variant \in {"A", "B"}
  /\ GamesAtRest
  /\ users = <<>>
  /\ reqs = [s \in Slots |-> NoRequest]
  /\ route = NoRoute
  /\ pool = PoolAtStart

NextRoutes ==
  \/ \E m \in {"GET", "POST"}, path \in Paths : RouteReceive(m, path)
  \/ RouteAwaitReturns
  \/ RouteAwaitFails
  \/ RouteEnd

SpecRoutes == InitRoutes /\ [][NextRoutes]_vars

--------------------------------------------------------------------------
(* The whole server: every endpoint, the requests taken one after          *)
(* another.                                                                *)

\* No request is in progress.
AtRest ==
  /\ pc = "idle"
  /\ route.pc = "idle"
  /\ \A s \in Slots : reqs[s].pc = "idle"

ServerReceive ==
  /\ AtRest
  /\ \/ ReceiveRace
     \/ \E b \in AuthLoginBodies : LoginReceive("r1", b)
     \/ \E b \in SignupBodies : SignupReceive("r1", b)
     \/ \E m \in {"GET", "POST"}, path \in Paths : RouteReceive(m, path)

\* An awaited call of the request in progress returns or throws.
ServerStep ==
  \/ CountReturns
  \/ FetchReturns
  \/ ExecuteFails
  \/ LoginLookupReturns("r1")
  \/ LoginCompareReturns("r1")
  \/ LoginFails("r1")
  \/ SignupUsernameLookupReturns("r1")
  \/ SignupEmailLookupReturns("r1")
  \/ SignupHashReturns("r1")
  \/ SignupInsertReturns("r1")
  \/ SignupFails("r1")
  \/ RouteAwaitReturns
  \/ RouteAwaitFails

\* The response has been sent; the request is over.
ServerEnd == RequestEnd \/ AuthEnd("r1") \/ RouteEnd

NextServer == ServerReceive \/ ServerStep \/ ServerEnd

SpecServer == InitPair /\ [][NextServer]_vars

\* Every awaited database, hasher and upstream call returns or throws.
SpecServerFair == SpecServer /\ WF_vars(ServerStep)

--------------------------------------------------------------------------
(* The connection pool.                                                    *)

\* The number of connections in use.
InUse == Cardinality({i \in Callers : pool.state[i] = "running"})

\* Mutant: the pool opens a connection for every caller.
NeverAllInUse == FALSE

\* Every connection the pool may open is in use.
AllInUse == InUse >= connectionLimit

QueueFull == queueLimit # 0 /\ Len(pool.queue) >= queueLimit

\* A caller asks for a connection: it gets one, or waits in the queue, or
\* is refused.
GetConnection(i) ==
  /\ pool.state[i] = "idle"
  /\ pool' =
       IF ~AllInUse
         THEN [pool EXCEPT !.state[i] = "running"]
       ELSE IF waitForConnections /\ ~QueueFull
         THEN [pool EXCEPT !.state[i] = "queued", !.queue = Append(@, i)]
       ELSE [pool EXCEPT !.state[i] = "failed"]
  /\ UNCHANGED <<variant, gamesVars, users, reqs, route>>

\* A caller gives its connection back: the first waiter takes it over.
Release(i, after) ==
  /\ pool.state[i] = "running"
  /\ pool' =
       IF pool.queue = <<>>
       THEN [pool EXCEPT !.state[i] = after]
       ELSE [pool EXCEPT !.state[i] = after,
                         !.state[Head(pool.queue)] = "running",
                         !.queue = Tail(@)]
  /\ UNCHANGED <<variant, gamesVars, users, reqs, route>>

\* await pool.getConnection() in testConnection, once, at start-up.
TestConnection == GetConnection(0)

\* connection.release()
TestRelease == Release(0, "released")

\* pool.execute(...) of a handler asks for a connection.
PoolExecute == \E i \in Callers \ {0} : GetConnection(i)

\* The statement is over and pool.execute gives the connection back.
ExecuteReturns == \E i \in Callers \ {0} : Release(i, "idle")

NextPool == TestConnection \/ TestRelease \/ PoolExecute \/ ExecuteReturns

\* The two servers configure the pool alike; the first one is taken.
InitPool == InitRoutes /\ variant = "A"

\* Every statement ends, and testConnection goes on to its release.
SpecPool ==
  /\ InitPool /\ [][NextPool]_vars
  /\ WF_vars(TestRelease) /\ WF_vars(ExecuteReturns)

--------------------------------------------------------------------------
(* What the claims speak about, read from the state.                       *)

\* The handler has normalised the pagination of the request in hand.
Normalised == pc \in {"count", "fetch", "done"}

\* The fetch query of the request in hand has been assembled.
FetchBuilt == gamesQuery # <<>>

\* The count query of the request in hand has been assembled.
CountBuilt == countQuery # <<>>

IndexOf(text, piece) == CHOOSE i \in 1..Len(text) : text[i] = piece

\* The column and the direction written after ORDER BY in the fetch query.
OrderByColumn ==
  SubSeq(gamesQuery, IndexOf(gamesQuery, " ORDER BY ") + 1,
         IndexOf(gamesQuery, " LIMIT ") - 3)
OrderByDirection == gamesQuery[IndexOf(gamesQuery, " LIMIT ") - 1]

NameColumn == <<"n", "a", "m", "e">>
AllowedColumns ==
  { NameColumn,
    <<"p", "r", "i", "c", "e", "_", "u", "s", "d">>,
    <<"h", "o", "u", "r", "s", "_", "t", "o", "_", "b", "e", "a", "t">>,
    <<"c", "o", "s", "t", "_", "p", "e", "r", "_", "h", "o", "u", "r">>,
    <<"c", "r", "e", "a", "t", "e", "d", "_", "a", "t">> }

\* The request names a sort column of the allowed set.
SortByAllowed(q) == q.sortBy.t = "str" /\ q.sortBy.s \in AllowedColumns

\* The pieces the handler itself writes into a query text.
Fragments ==
  { "SELECT COUNT(*) as total FROM steam_games ",
    "SELECT id, name, steam_appid, price_usd, hours_to_beat, cost_per_hour, created_at, updated_at FROM steam_games ",
    "WHERE ", " AND ", "name LIKE ", "price_usd >= ", "price_usd <= ",
    "hours_to_beat >= ", "hours_to_beat <= ", "?", " ORDER BY ", " ",
    "ASC", "DESC", " LIMIT ", " OFFSET " }
   \cup { ToString(n) : n \in 0..200 }

\* The order value equals 'desc' up to the case of its letters.
OrderIsDesc(q) ==
  /\ q.order.t = "str"
  /\ Len(q.order.s) = 4
  /\ q.order.s[1] \in {"d", "D"}
  /\ q.order.s[2] \in {"e", "E"}
  /\ q.order.s[3] \in {"s", "S"}
  /\ q.order.s[4] \in {"c", "C"}

\* A filter value is present and not empty.
Given(x) == x.t # "undef" /\ x.s # <<>>

\* A filter value is present, not empty, and a number.
GivenNumber(x) == Given(x) /\ ~ParseFloat(x.s).nan

Count(b) == IF b THEN 1 ELSE 0

\* The predicates and the parameters the present filters of q stand for,
\* in the order search, minPrice, maxPrice, minHours, maxHours.
ExpectedPredicates(q) ==
     (IF Given(q.search) THEN <<"name LIKE ">> ELSE <<>>)
  \o (IF Given(q.minPrice) THEN <<"price_usd >= ">> ELSE <<>>)
  \o (IF Given(q.maxPrice) THEN <<"price_usd <= ">> ELSE <<>>)
  \o (IF Given(q.minHours) THEN <<"hours_to_beat >= ">> ELSE <<>>)
  \o (IF Given(q.maxHours) THEN <<"hours_to_beat <= ">> ELSE <<>>)

ExpectedParams(q) ==
     (IF Given(q.search)
        THEN <<[k |-> "str", s |-> <<"%">> \o q.search.s \o <<"%">>]>>
        ELSE <<>>)
  \o (IF Given(q.minPrice)
        THEN <<[k |-> "num", s |-> q.minPrice.s]>> ELSE <<>>)
  \o (IF Given(q.maxPrice)
        THEN <<[k |-> "num", s |-> q.maxPrice.s]>> ELSE <<>>)
  \o (IF Given(q.minHours)
        THEN <<[k |-> "num", s |-> q.minHours.s]>> ELSE <<>>)
  \o (IF Given(q.maxHours)
        THEN <<[k |-> "num", s |-> q.maxHours.s]>> ELSE <<>>)

IsPredicate(piece) ==
  piece \in {"name LIKE ", "price_usd >= ", "price_usd <= ",
             "hours_to_beat >= ", "hours_to_beat <= "}

\* The predicates of a query text, in their order.
PredicatesOf(text) == SelectSeq(text, IsPredicate)

IsAnd(piece) == piece = " AND "

\* A bound parameter is the one expected: the search pattern, or the number
\* the bound's text parses to.
ParamIs(p, e) ==
  /\ p.k = e.k
  /\ IF e.k = "str" THEN p.s = e.s ELSE p.n = ParseFloat(e.s)

--------------------------------------------------------------------------
(* The claims.                                                             *)

\* C1: for every page and limit input, in both variants, the effective
\* page is an integer >= 1 and the effective page size an integer in
\* [1, 100].
C1_EffectivePageAndLimitInRange ==
  Normalised =>
    /\ ~pageNum.nan /\ pageNum.v >= 1
    /\ ~limitNum.nan /\ limitNum.v >= 1 /\ limitNum.v <= 100

\* C2: page is 1 when the page input is absent, unparseable or less than 1
\* and the parsed page otherwise; the page size is 20 when absent, and a
\* requested size outside [1, 100] becomes the nearest boundary (<= 0
\* becomes 1, > 100 becomes 100); offset = (page - 1) * pageSize >= 0.
C2_PaginationNormalisedExactly ==
  Normalised =>
    LET p == ParseInt(query.page.s)
        l == ParseInt(query.limit.s)
        page == IF query.page.t = "undef" \/ p.nan \/ p.v < 1 THEN 1 ELSE p.v
    IN /\ pageNum = Num(page)
       /\ query.limit.t = "undef" => limitNum = Num(20)
       /\ (query.limit.t # "undef" /\ ~l.nan) =>
             limitNum = Num(IF l.v <= 0 THEN 1
                            ELSE IF l.v > 100 THEN 100 ELSE l.v)
       /\ ~limitNum.nan
       /\ offset = Num((page - 1) * limitNum.v)
       /\ offset.v >= 0

\* C3: the column written after ORDER BY in the fetch query is one of the
\* five allowed columns: the requested one when it is allowed, name
\* otherwise; every other piece of the text is the handler's own.
C3_SortColumnAllowListed ==
  FetchBuilt =>
    LET from == IndexOf(gamesQuery, " ORDER BY ") + 1
        to == IndexOf(gamesQuery, " LIMIT ") - 3
    IN /\ OrderByColumn \in AllowedColumns
       /\ OrderByColumn =
            (IF SortByAllowed(query) THEN query.sortBy.s ELSE NameColumn)
       /\ \A i \in 1..Len(gamesQuery) :
            (i >= from /\ i <= to) \/ gamesQuery[i] \in Fragments

C3_Witness ==
  /\ FetchBuilt
  /\ query.sortBy = Str(<<"?">>)
  /\ OrderByColumn = NameColumn
  /\ pc = "done" /\ response.status = 200

\* C4, as claimed: a request whose sortBy value is outside the allowed set
\* is ordered by name ascending, whatever its order value.
C4_FallbackIsNameAscending ==
  (FetchBuilt /\ query.sortBy.t # "undef" /\ ~SortByAllowed(query)) =>
    /\ OrderByColumn = NameColumn
    /\ OrderByDirection = "ASC"

\* C4, amended: a request whose sortBy value is outside the allowed set is
\* ordered by name, in the direction its order value asks for: descending
\* when order is 'desc' in any case, ascending otherwise.
C4_FallbackIsNameInRequestedDirection ==
  (FetchBuilt /\ query.sortBy.t # "undef" /\ ~SortByAllowed(query)) =>
    /\ OrderByColumn = NameColumn
    /\ OrderByDirection = (IF OrderIsDesc(query) THEN "DESC" ELSE "ASC")

C4_Witness ==
  /\ FetchBuilt
  /\ query.sortBy = Str(<<"x">>)
  /\ query.order = Str(<<"d", "e", "s", "c">>)
  /\ OrderByColumn = NameColumn
  /\ OrderByDirection = "DESC"

\* C5: for every order input, repeated or non-string values included, the
\* direction of the fetch query is DESC when the input is 'desc' in any
\* case and ASC otherwise, and no order value makes the request fail: no
\* request is answered 500 before its count query is issued.
C5_OrderNormalisedAndNeverFails ==
  /\ FetchBuilt =>
       OrderByDirection = (IF OrderIsDesc(query) THEN "DESC" ELSE "ASC")
  /\ ~(pc = "done" /\ response.status = 500 /\ ~CountBuilt)

\* C6: each filter that is present and not empty contributes exactly one
\* predicate and one parameter, the others none, in the order search,
\* minPrice, maxPrice, minHours, maxHours, joined by AND; each query has as
\* many '?' as parameters bound to it.
C6_OnePredicateAndParameterPerFilter ==
  CountBuilt =>
    LET want == ExpectedParams(query)
        n == Len(want)
    IN /\ PredicatesOf(countQuery) = ExpectedPredicates(query)
       /\ Len(countParams) = n
       /\ \A i \in 1..n : ParamIs(countParams[i], want[i])
       /\ Len(SelectSeq(countQuery, IsAnd)) = (IF n = 0 THEN 0 ELSE n - 1)
       /\ Placeholders(countQuery) = Len(countParams)
       /\ FetchBuilt =>
            /\ PredicatesOf(gamesQuery) = ExpectedPredicates(query)
            /\ Placeholders(gamesQuery) = Len(gamesParams)

C6_Witness ==
  /\ FetchBuilt
  /\ Given(query.search) /\ Given(query.minPrice) /\ Given(query.maxPrice)
  /\ Given(query.minHours) /\ Given(query.maxHours)
  /\ Placeholders(countQuery) = 5
  /\ Len(countParams) = 5

\* C7: a minPrice, maxPrice, minHours or maxHours value that is present but
\* does not parse as a number is treated as absent: it adds no predicate
\* and no parameter.
C7_NonNumericBoundIsAbsent ==
  CountBuilt =>
    LET n == Count(Given(query.search)) + Count(GivenNumber(query.minPrice))
             + Count(GivenNumber(query.maxPrice))
             + Count(GivenNumber(query.minHours))
             + Count(GivenNumber(query.maxHours))
    IN /\ Len(countParams) = n
       /\ Placeholders(countQuery) = n
       /\ \A i \in 1..Len(countParams) :
            countParams[i].k = "num" => ~countParams[i].n.nan

\* C8: the count query and the fetch query have the same WHERE clause and
\* the same filter parameters in the same order; the fetch query differs by
\* its select list, its ORDER BY and LIMIT/OFFSET and, in the variant that
\* binds them, the two trailing limit and offset parameters.
C8_CountAndFetchShareFilters ==
  FetchBuilt =>
    LET w == Tail(countQuery)
        n == Len(w)
        rest == SubSeq(gamesQuery, n + 2, Len(gamesQuery))
        m == Len(countParams)
        extra == SubSeq(gamesParams, m + 1, Len(gamesParams))
    IN /\ countQuery[1] = "SELECT COUNT(*) as total FROM steam_games "
       /\ gamesQuery[1] # countQuery[1]
       /\ Len(gamesQuery) >= n + 2
       /\ SubSeq(gamesQuery, 2, n + 1) = w
       /\ rest[1] = " ORDER BY "
       /\ PredicatesOf(rest) = <<>>
       /\ Len(gamesParams) >= m
       /\ SubSeq(gamesParams, 1, m) = countParams
       /\ Len(extra) = Placeholders(rest)
       /\ extra = (IF variant = "B"
                     THEN <<NumParam(limitNum), NumParam(offset)>>
                     ELSE <<>>)

C8_Witness ==
  /\ FetchBuilt
  /\ variant = "B"
  /\ Len(countParams) = 5
  /\ Len(gamesParams) = 7
  /\ pc = "done" /\ response.status = 200

\* Two requests with the same present filters and the same sortBy, order,
\* page and limit.
SameShape(q1, q2) ==
  /\ q1.sortBy = q2.sortBy /\ q1.order = q2.order
  /\ q1.page = q2.page /\ q1.limit = q2.limit
  /\ Given(q1.search) = Given(q2.search)
  /\ Given(q1.minPrice) = Given(q2.minPrice)
  /\ Given(q1.maxPrice) = Given(q2.maxPrice)
  /\ Given(q1.minHours) = Given(q2.minHours)
  /\ Given(q1.maxHours) = Given(q2.maxHours)

\* C9: two requests that have the same present filters and the same sortBy,
\* order, page and limit, but different filter values, have the same count
\* and fetch query texts.
C9_FilterValuesNeverInText ==
  (prev.set /\ FetchBuilt /\ SameShape(prev.query, query)) =>
    /\ countQuery = prev.countQuery
    /\ gamesQuery = prev.gamesQuery

C9_Witness ==
  /\ prev.set /\ FetchBuilt /\ SameShape(prev.query, query)
  /\ prev.query.search # query.search
  /\ prev.query.minPrice # query.minPrice
  /\ Given(query.search) /\ Given(query.minPrice)
  /\ prev.countParams # countParams
  /\ prev.gamesParams # gamesParams

\* C10: in a 200 response, totalPages = ceil(totalGames / gamesPerPage),
\* hasNextPage = (currentPage < totalPages), hasPrevPage = (currentPage >
\* 1), and currentPage and gamesPerPage are the normalised page and limit;
\* 12 matching rows with page 1 and limit 5 give 5 rows, 3 pages, a next
\* page and no previous page.
C10_PaginationMetadata ==
  (pc = "done" /\ response.status = 200) =>
    LET pg == response.pagination
        tp == pg.totalPages
    IN /\ pg.currentPage = pageNum
       /\ pg.gamesPerPage = limitNum
       /\ pg.totalGames = totalGames
       /\ ~totalGames.nan
       /\ IF limitNum.nan THEN tp.nan
          ELSE /\ ~tp.nan
               /\ tp.v * limitNum.v >= totalGames.v
               /\ (tp.v - 1) * limitNum.v < totalGames.v
       /\ pg.hasNextPage = (~pageNum.nan /\ ~tp.nan /\ pageNum.v < tp.v)
       /\ pg.hasPrevPage = (~pageNum.nan /\ pageNum.v > 1)
       /\ (totalGames = Num(12) /\ pageNum = Num(1) /\ limitNum = Num(5)) =>
            /\ response.games = 5
            /\ tp = Num(3)
            /\ pg.hasNextPage /\ ~pg.hasPrevPage

C10_Witness ==
  /\ pc = "done" /\ response.status = 200
  /\ query.limit = Str(<<"5">>)
  /\ response.games = 5
  /\ response.pagination.totalGames = Num(12)
  /\ response.pagination.totalPages = Num(3)
  /\ response.pagination.currentPage = Num(1)
  /\ response.pagination.hasNextPage
  /\ ~response.pagination.hasPrevPage

\* C11: whatever the table does while requests are served, the totalGames
\* of a 200 response is at least the number of rows the same response
\* returns.
C11_CountCoversReturnedRows ==
  (pc = "done" /\ response.status = 200) =>
    response.games <= response.pagination.totalGames.v

\* A login that ran to its response without a throw, and the two ways it
\* can have had invalid credentials.
LoginAnswered(s) ==
  reqs[s].kind = "login" /\ reqs[s].pc = "done" /\ ~reqs[s].threw

FieldsSupplied(b) == BodyTruthy(b.username) /\ BodyTruthy(b.password)

UserExists(b) == \E i \in 1..Len(users) : users[i].username = b.username.s

PasswordVerifies(b) ==
  \E i \in 1..Len(users) :
    /\ users[i].username = b.username.s
    /\ b.password.t = "str"
    /\ Verify(b.password.s, users[i].password_hash)

WrongPasswordCase(s) ==
  /\ LoginAnswered(s)
  /\ FieldsSupplied(reqs[s].body)
  /\ UserExists(reqs[s].body)
  /\ ~PasswordVerifies(reqs[s].body)

NoSuchUserCase(s) ==
  /\ LoginAnswered(s)
  /\ FieldsSupplied(reqs[s].body)
  /\ ~UserExists(reqs[s].body)

LoginSucceeded(s) ==
  /\ reqs[s].response.status = 200
  /\ reqs[s].response.success = TRUE
  /\ reqs[s].response.message = "Login successful"
  /\ reqs[s].response.user.username = reqs[s].body.username.s

LoginOutcome(s) ==
  /\ reqs[s].threw =>
       /\ reqs[s].response.status = 500
       /\ reqs[s].response.success = FALSE
  /\ ~FieldsSupplied(reqs[s].body) =>
       /\ reqs[s].response.status = 400
       /\ reqs[s].response.success = FALSE
       /\ ~reqs[s].threw
  /\ ~reqs[s].threw =>
       (LoginSucceeded(s) <=>
          /\ FieldsSupplied(reqs[s].body)
          /\ UserExists(reqs[s].body)
          /\ PasswordVerifies(reqs[s].body))
  /\ reqs[s].response.status \in {200, 400, 401, 500}
  /\ reqs[s].response.success <=> reqs[s].response.status = 200

\* C13: a finished login is a success exactly when both fields were
\* supplied, a row with that username exists and the password verifies
\* against its hash; a missing or empty field gives 400, a throw of the
\* database or of bcrypt gives 500, and no step changes the users table.
C13_LoginSucceedsIffCredentialsValid ==
  /\ [](\A s \in Slots :
          (reqs[s].kind = "login" /\ reqs[s].pc = "done") => LoginOutcome(s))
  /\ [][users' = users]_vars

C13_Witness ==
  \E s, t \in Slots :
    /\ LoginAnswered(s) /\ LoginSucceeded(s)
    /\ reqs[s].body.username = Str(Alice)
    /\ Len(users) = 2
    /\ reqs[t].kind = "login" /\ reqs[t].pc = "done" /\ reqs[t].threw

\* A finished signup, and what the table held when it arrived.
SignupDone(s) == reqs[s].kind = "signup" /\ reqs[s].pc = "done"

UsernameExisted(s) ==
  \E i \in 1..reqs[s].before : users[i].username = reqs[s].body.username.s

EmailExisted(s) ==
  \E i \in 1..reqs[s].before : users[i].email = reqs[s].body.email.s

IsString(v, lens) == v.t = "str" /\ Len(v.s) \in lens

\* The request created its user: the row after those it found is its own.
CreatedUser(s) ==
  /\ reqs[s].response.status = 201
  /\ reqs[s].response.success = TRUE
  /\ Len(users) = reqs[s].before + 1
  /\ users[Len(users)].username = reqs[s].body.username.s
  /\ users[Len(users)].email = reqs[s].body.email.s
  /\ reqs[s].response.user.id = users[Len(users)].id

\* C14: a signup with a username shorter than 3 or longer than 20 is
\* answered 400 and creates nothing; one with a username of 3 to 20 word
\* characters, a valid email, a password of 6 or more and no duplicate in
\* the table is answered 201 and its row is in the table.
C14_UsernameLengthBoundaries ==
  SignupDone("r1") =>
    LET b == reqs["r1"].body
    IN /\ (b.username.t = "str" /\ (Len(b.username.s) < 3 \/ Len(b.username.s) > 20)) =>
            /\ reqs["r1"].response.status = 400
            /\ Len(users) = reqs["r1"].before
            /\ reqs["r1"].statements = 0
       /\ IsString(b.username, 3..20) =>
            reqs["r1"].response.message #
              "Username must be between 3 and 20 characters"
       /\ ( /\ IsString(b.username, 3..20)
            /\ UsernameCharsetOk(b.username)
            /\ b.email.t = "str" /\ EmailOk(b.email)
            /\ b.password.t = "str" /\ Len(b.password.s) >= 6
            /\ ~UsernameExisted("r1") /\ ~EmailExisted("r1")
            /\ ~reqs["r1"].threw ) => CreatedUser("r1")

C14_Witness ==
  /\ SignupDone("r1")
  /\ reqs["r1"].body.username = Str(MaxName)
  /\ CreatedUser("r1")
  /\ Len(users) = 2
  /\ users[1].username = MinName

\* A username of 2 and one of 21 characters were both turned away.
C14_WitnessRejected ==
  /\ SignupDone("r1")
  /\ reqs["r1"].body = SignupBody(Str(LongName), Str(Mail), Str(GoodPassword))
  /\ reqs["r1"].response.status = 400

\* C15: a valid signup whose username is in the table is answered 409
\* 'Username already exists'; one whose username is new and whose email is
\* in the table is answered 409 'Email already registered'; neither adds a
\* row; whichever row of the table holds the duplicate.
C15_DuplicatesAnswered409 ==
  ( /\ SignupDone("r1")
    /\ SignupValidation(reqs["r1"].body) = NoAuthResponse
    /\ ~reqs["r1"].threw ) =>
      /\ UsernameExisted("r1") =>
           /\ reqs["r1"].response.status = 409
           /\ reqs["r1"].response.message = "Username already exists"
           /\ Len(users) = reqs["r1"].before
      /\ (~UsernameExisted("r1") /\ EmailExisted("r1")) =>
           /\ reqs["r1"].response.status = 409
           /\ reqs["r1"].response.message = "Email already registered"
           /\ Len(users) = reqs["r1"].before

\* The email of a new username is the one of the first of two rows.
C15_Witness ==
  /\ SignupDone("r1")
  /\ ~reqs["r1"].threw
  /\ reqs["r1"].before = 2
  /\ ~UsernameExisted("r1")
  /\ users[1].email = reqs["r1"].body.email.s
  /\ reqs["r1"].response.status = 409

\* C16: a signup whose insert was refused for a unique key is answered 409
\* with the message of the column of that key.
C16_DuplicateKeyMappedToItsColumn ==
  \A s \in Slots :
    (SignupDone(s) /\ reqs[s].dup # "") =>
      /\ reqs[s].response.status = 409
      /\ reqs[s].dup = "username" =>
           reqs[s].response.message = "Username already exists"
      /\ reqs[s].dup = "email" =>
           reqs[s].response.message = "Email already registered"

Routed(m, path) ==
  route.pc # "idle" /\ route.method = m /\ route.path = path

StatsPath == << <<"api">>, <<"games">>, <<"stats">> >>
OwnedGamesPath == << <<"api">>, <<"owned-games">> >>

\* C18: GET /api/games/stats is handled by the statistics handler, and
\* unless its statement throws it is answered 200 with the statistics.
C18_StatsReachesItsHandler ==
  Routed("GET", StatsPath) =>
    /\ route.handler = "stats"
    /\ (route.pc = "done" /\ ~route.threw) =>
         /\ route.response.status = 200
         /\ route.response.data = "statistics"

\* A path value that is a number in decimal notation.
IsNumeric(v) == DecimalLiteral(Unsigned(v))

\* C19: the two lookups by path value answer 400 without a statement when
\* the value is not numeric, 404 with success false when it is numeric and
\* no row matches, and 200 with the record when a row matches.
C19_PathValueLookup ==
  (route.pc = "done" /\ route.handler \in {"gameById", "gameBySteamId"}) =>
    /\ ~IsNumeric(PathValue(route.path)) =>
         /\ route.response.status = 400
         /\ route.statements = 0
    /\ (IsNumeric(PathValue(route.path)) /\ route.result = "noRow") =>
         /\ route.response.status = 404
         /\ route.response.success = FALSE
    /\ (IsNumeric(PathValue(route.path)) /\ route.result = "row") =>
         /\ route.response.status = 200
         /\ route.response.data = "game"

\* C20: GET /api/owned-games on the server that has the route answers 200
\* with the games when the upstream sends a list, 404 when it answers
\* without one, and when the call fails 500 'Internal server error' from
\* the error middleware, not the 404 of the layer before it.
C20_OwnedGamesOutcomes ==
  (variant = "A" /\ Routed("GET", OwnedGamesPath) /\ route.pc = "done") =>
    /\ route.handler = "ownedGames"
    /\ route.result = "games" =>
         /\ route.response.status = 200
         /\ route.response.success = TRUE
         /\ route.response.data = "games"
    /\ route.result \in {"noGames", "noResponse"} =>
         /\ route.response.status = 404
         /\ route.response.by = "ownedGames"
    /\ route.threw =>
         /\ route.response.status = 500
         /\ route.response.success = FALSE
         /\ route.response.message = "Internal server error"
         /\ route.response.by = "errorMiddleware"

C20_Witness ==
  /\ variant = "A"
  /\ Routed("GET", OwnedGamesPath)
  /\ route.pc = "done"
  /\ route.threw
  /\ route.response.status = 500

\* C22: on the server that checks it, a fetch query whose parameter list
\* has not as many entries as the text has placeholders is never executed:
\* the request ends 500 'Error fetching games'.
C22_ParameterCountChecked ==
  (variant = "A" /\ gamesQuery # <<>>
     /\ Len(gamesParams) # Placeholders(gamesQuery)) =>
    /\ pc = "done"
    /\ response.status = 500
    /\ response.success = FALSE
    /\ response.message = "Error fetching games"

C22_Witness ==
  /\ variant = "A"
  /\ pc = "done"
  /\ Placeholders(gamesQuery) = 2
  /\ Len(gamesParams) = 1
  /\ response.status = 500

\* C27: whichever server takes a request, its page, limit, offset, filter
\* predicates and parameters are those the other server computes for the
\* same query, and the limit and offset it hands to the database are
\* integers.
C27_VariantsEquivalent ==
  (pc # "idle") =>
    /\ pageNum = PageNum("A", query) /\ pageNum = PageNum("B", query)
    /\ limitNum = LimitNum("A", query) /\ limitNum = LimitNum("B", query)
    /\ offset = Offset(PageNum("A", query), LimitNum("A", query))
    /\ offset = Offset(PageNum("B", query), LimitNum("B", query))
    /\ WhereConditions("A", query) = WhereConditions("B", query)
    /\ BaseParams("A", query) = BaseParams("B", query)
    /\ ~limitNum.nan /\ ~offset.nan

\* The names that contain the term as it is written.
Containing(term) == {n \in GameNames : Includes(n, term)}

\* C28: for a non-empty search term the rows selected are exactly those
\* whose name contains the term as a literal substring, and the 200
\* response counts them.
C28_SearchIsLiteralSubstring ==
  (pc \in {"count", "fetch", "done"} /\ query.search.t = "str"
     /\ query.search.s # <<>>) =>
    /\ Selected(BaseParams(variant, query)) = Containing(query.search.s)
    /\ (pc = "done" /\ response.status = 200) =>
         response.pagination.totalGames.v =
           Cardinality(Containing(query.search.s))

\* C29: a login or signup answered 400 has issued no statement and no
\* hash operation; a signup answered 409 by one of its lookups has issued
\* no hash and no insert.
C29_ValidationBeforeLookup ==
  \A s \in Slots :
    (reqs[s].pc = "done") =>
      /\ reqs[s].response.status = 400 =>
           /\ reqs[s].statements = 0
           /\ reqs[s].hashOps = 0
      /\ (reqs[s].kind = "signup" /\ reqs[s].response.status = 409
            /\ reqs[s].dup = "") =>
           /\ reqs[s].hashOps = 0
           /\ reqs[s].hash = <<>>
           /\ reqs[s].statements \in {1, 2}
           /\ Len(users) = reqs[s].before

\* A signup with a short password was turned away while the table held a
\* user.
C29_Witness ==
  /\ reqs["r1"].kind = "signup" /\ reqs["r1"].pc = "done"
  /\ reqs["r1"].response.status = 400
  /\ reqs["r1"].body.password = Str(Rep("p", 5))
  /\ reqs["r1"].body.username = Str(MinName)
  /\ Len(users) = 1

\* The seven checks of a signup in the order the claim gives them, each
\* TRUE when the body fails it against the table the request found.
FailedChecks(b, tbl) ==
  << b.username.s = <<>> \/ b.email.s = <<>> \/ b.password.s = <<>>,
     Len(b.username.s) < 3 \/ Len(b.username.s) > 20,
     \E i \in 1..Len(b.username.s) : b.username.s[i] \notin WordChars,
     ~EmailOk(b.email),
     Len(b.password.s) < 6,
     \E i \in 1..Len(tbl) : tbl[i].username = b.username.s,
     \E i \in 1..Len(tbl) : tbl[i].email = b.email.s >>

CheckMessages ==
  << "Username, email, and password are required",
     "Username must be between 3 and 20 characters",
     "Username can only contain letters, numbers, and underscores",
     "Please enter a valid email address",
     "Password must be at least 6 characters long",
     "Username already exists",
     "Email already registered" >>

FirstFailed(b, tbl) ==
  LET failed == {i \in 1..7 : FailedChecks(b, tbl)[i]}
  IN  IF failed = {} THEN 0
      ELSE CHOOSE i \in failed : \A k \in failed : i <= k

\* C30: a signup that is not answered 500 is answered by the first of the
\* seven checks that fails, with 400 for the five validations and 409 for
\* the two lookups, and with 201 only when none fails.
C30_FirstFailingCheckAnswers ==
  \A s \in Slots :
    (reqs[s].kind = "signup" /\ reqs[s].pc = "done"
       /\ reqs[s].response.status # 500) =>
      LET first == FirstFailed(reqs[s].body,
                               SubSeq(users, 1, reqs[s].before))
      IN  IF first = 0 THEN reqs[s].response.status = 201
          ELSE /\ reqs[s].response.message = CheckMessages[first]
               /\ reqs[s].response.status = IF first <= 5 THEN 400 ELSE 409
               /\ reqs[s].response.success = FALSE

\* A signup whose username and email are both taken, by two different
\* users, was answered for the username.
C30_Witness ==
  /\ reqs["r1"].kind = "signup" /\ reqs["r1"].pc = "done"
  /\ Len(users) = 2
  /\ users[1].email = reqs["r1"].body.email.s
  /\ users[2].username = reqs["r1"].body.username.s
  /\ reqs["r1"].response.status = 409
  /\ reqs["r1"].response.message = "Username already exists"

\* C23: every username stored in the users table has between 3 and 20
\* characters, all of them letters, digits or underscores.
C23_StoredUsernamesWellFormed ==
  \A i \in 1..Len(users) :
    /\ Len(users[i].username) >= 3
    /\ Len(users[i].username) <= 20
    /\ \A k \in 1..Len(users[i].username) : users[i].username[k] \in WordChars

\* C24: the row a signup created holds the hasher's output for the
\* submitted password and not the password, and no login or signup
\* response carries a password or a hash.
C24_OnlyHashStoredNothingReturned ==
  \A s \in Slots :
    (reqs[s].pc = "done") =>
      /\ reqs[s].response.user.password_hash = <<>>
      /\ (reqs[s].kind = "signup" /\ reqs[s].response.status = 201) =>
           LET row == users[reqs[s].response.user.id]
           IN  /\ \E salt \in Salts :
                    row.password_hash = Hash(reqs[s].body.password.s, salt)
               /\ row.password_hash # reqs[s].body.password.s
               /\ Verify(reqs[s].body.password.s, row.password_hash)

\* A second account was created and answered 201.
C24_Witness ==
  /\ reqs["r1"].kind = "signup" /\ reqs["r1"].pc = "done"
  /\ reqs["r1"].response.status = 201
  /\ reqs["r1"].response.user.id = 2
  /\ Len(users) = 2
  /\ users[2].username = reqs["r1"].body.username.s

\* A step in which slot s's signup inserted its row and was answered 201.
Created(s) ==
  /\ reqs[s].kind = "signup" /\ reqs[s].pc = "insert"
  /\ reqs'[s].pc = "done" /\ reqs'[s].response.status = 201
  /\ Len(users') = Len(users) + 1
  /\ SubSeq(users', 1, Len(users)) = users

Answers ==
  [games |-> [pc |-> pc, status |-> response.status,
              success |-> response.success, threw |-> FALSE],
   auth |-> [pc |-> reqs["r1"].pc, status |-> reqs["r1"].response.status,
             success |-> reqs["r1"].response.success,
             threw |-> reqs["r1"].threw],
   route |-> [pc |-> route.pc, status |-> route.response.status,
              success |-> route.response.success, threw |-> route.threw]]

\* The response of the games listing, of slot r1 and of the other routes.
Sent == <<response, reqs["r1"].response, route.response>>

\* C21: every request taken is eventually answered; a request is answered
\* exactly when its handler has finished, the response sent is not replaced
\* while the request lasts, and a request whose handler threw is answered
\* with success = false and 500 or the 4xx the handler maps the error to.
C21_EveryRequestAnsweredOnce ==
  /\ \A e \in {"games", "auth", "route"} :
       (Answers[e].pc # "idle") ~> (Answers[e].pc = "done")
  /\ [](\A e \in {"games", "auth", "route"} :
          /\ (Answers[e].status # 0) <=> (Answers[e].pc = "done")
          /\ (Answers[e].pc = "done" /\ Answers[e].status \notin {200, 201}) =>
               /\ ~Answers[e].success
               /\ Answers[e].status \in {400, 401, 404, 409, 500}
          /\ Answers[e].threw =>
               /\ ~Answers[e].success
               /\ Answers[e].status \in {0, 409, 500})
  /\ [][\A i \in 1..3 :
          Sent[i].status # 0 =>
            Sent'[i] = Sent[i] \/ Sent'[i].status = 0]_vars

\* A signup whose hash operation threw was answered 500.
C21_Witness ==
  /\ reqs["r1"].kind = "signup" /\ reqs["r1"].pc = "done"
  /\ reqs["r1"].threw /\ reqs["r1"].statements = 2
  /\ reqs["r1"].response.status = 500
  /\ Len(users) = 1

\* C26: at most connectionLimit connections are in use; a caller that asks
\* while all are in use waits (none is refused, and none waits while a
\* connection is free) and eventually gets a connection; testConnection
\* gives back the connection it got.
C26_PoolBoundedAndQueueServed ==
  /\ [](InUse <= connectionLimit)
  /\ [](\A i \in Callers : pool.state[i] # "failed")
  /\ [](pool.queue # <<>> => InUse = connectionLimit)
  /\ \A i \in Callers :
       (pool.state[i] = "queued") ~> (pool.state[i] = "running")
  /\ (pool.state[0] = "running") ~> (pool.state[0] = "released")

\* All connections are in use and two callers wait, testConnection first.
C26_Witness ==
  /\ InUse = connectionLimit
  /\ Len(pool.queue) = 2
  /\ Head(pool.queue) = 0

==========================================================================
